---- MODULE Spec2Model ----
(***************************************************************************)
(* Print a List (quadrant layout): the list parser, the icon matcher and   *)
(* the height-aware quadrant packer of main.js, as state machines.         *)
(*                                                                         *)
(* main.js holds two copies of the program; the second copy (from line     *)
(* 579 on) is the current one and is the one modelled here.                *)
(*                                                                         *)
(* Four specifications share the variables:                                *)
(*   SpecPack   one pass of flowIntoQuadrants over a list of sections      *)
(*   SpecParse  one run of parseMarkdownList over a source text            *)
(*   SpecMatch  one call of pickIconKeySmart on an item text               *)
(*   SpecApp    the page: startup, debounced rendering and the PDF export  *)
(* In each, the variables of the other components stay at their idle       *)
(* values.                                                                 *)
(***************************************************************************)
EXTENDS Integers, Sequences, FiniteSets, TLC

VARIABLES
    \* ---- flowIntoQuadrants: inputs
    sections,         \* the sections handed to the packer: <<[name, items]>>
    quadRawH,         \* raw quadrant height in px (from the page geometry)
    titleBlock,       \* --title-block, in mm (`title` in flowIntoQuadrants)
    sectionGapPx,     \* --section-gap, in px
    layout,           \* what the off-screen measurer answers (the measureFn)
    \* ---- flowIntoQuadrants: locals
    result,           \* [[],[],[],[]], quadrant -> entries
    step, q,          \* position in the visiting order, current quadrant
    usedH, countInQuadrant,
    secIdx,           \* the for-of cursor over sections (1-based)
    start, part,      \* split cursor inside the current section
    rejected,         \* history: a break of the split loop left items behind
    pc,               \* control point of the pass
    \* ---- parseMarkdownList
    src,              \* the source text, a sequence of characters
    lines,            \* src.split(/\r?\n/)
    lineIdx,          \* the for-of cursor over lines (1-based)
    title,            \* null, or the title text
    psections,        \* the local `sections` of parseMarkdownList
    currentSection,   \* 0 for null, else the index in psections of the object
    model,            \* null, or the returned { title, sections }
    parsePc,          \* control point of the parse
    \* ---- icon matching
    SYNONYMS,         \* the synonym table, a function from phrases to targets
    rawText,          \* the item text handed to pickIconKeySmart (a string)
    iconKey,          \* null, or the key pickIconKeySmart returned (a string)
    matchPc,          \* control point: boot, ready, returned, threw
    \* ---- the page: startup, debounced rendering, PDF export
    bootPc,           \* the DOMContentLoaded handler: unloaded, awaiting, ready
    lexicon,          \* loadIconMap: idle, fetch, json, then how it ended
    hashText,         \* null, or the text= parameter of location.hash
    srcValue,         \* the value of the #src textarea (a string)
    now,              \* the clock, in ticks
    timers,           \* the pending setTimeout(filterNow, 200) timers
    tid,              \* _tid: null (undefined), or the id of the last timer set
    log,              \* history: the input events and the render cycles started
    outKind,          \* what #out holds: none, note (empty state) or grid
    outStyled,        \* the print geometry is set on #out
    gridStyled,       \* the print geometry is set on the .grid4 inside #out
    pdfPc,            \* the export: idle, preparing, snapshot, done, failed
    btn,              \* the export button: [disabled, label]
    notices,          \* the error boxes on screen
    inflight,         \* the cycles waiting for the layout, oldest first (log positions)
    outRun,           \* the cycle whose title and grid or note #out holds; 0: none
    outEntries        \* the cycles whose entries hang in the grid inside #out

packVars == <<sections, quadRawH, titleBlock, sectionGapPx, layout, result, step, q,
              usedH, countInQuadrant, secIdx, start, part, rejected, pc>>

parseVars == <<src, lines, lineIdx, title, psections, currentSection, model, parsePc>>

matchVars == <<SYNONYMS, rawText, iconKey, matchPc>>

appVars == <<bootPc, lexicon, hashText, srcValue, now, timers, tid, log, outKind,
             outStyled, gridStyled, pdfPc, btn, notices, inflight, outRun, outEntries>>

vars == <<packVars, parseVars, matchVars, appVars>>

NULL == "null"

(***************************************************************************)
(* Bounds of the model                                                     *)
(***************************************************************************)
MaxSections == 3
MaxItems == 5
MaxTotalItems == 7
MaxLines == 3
MaxWords == 3

(***************************************************************************)
(* Generic helpers                                                         *)
(***************************************************************************)
Min(a, b) == IF a <= b THEN a ELSE b

RECURSIVE SumSeq(_)
SumSeq(s) == IF s = <<>> THEN 0 ELSE Head(s) + SumSeq(Tail(s))

RECURSIVE Flatten(_)
Flatten(ss) == IF ss = <<>> THEN <<>> ELSE Head(ss) \o Flatten(Tail(ss))

IsPrefix(s, t) == Len(s) <= Len(t) /\ SubSeq(t, 1, Len(s)) = s

\* items.slice(a, b) of JavaScript: 0-based, end exclusive, clamped.
Slice(items, a, b) == SubSeq(items, a + 1, Min(b, Len(items)))

(***************************************************************************)
(* Packer: geometry and measurement                                        *)
(***************************************************************************)
TL_HEIGHT_REDUCTION == 4
TR_HEIGHT_REDUCTION == 14
epsilon == 1

\* mm * (96/25.4). Heights are whole pixels here (offsetHeight and the
\* floored quadrant height are integers), so the amount is rounded up:
\* for integers h and X, h <= X - t holds exactly when h <= X - ceil(t).
mmToPx(mm) == (mm * 960 + 253) \div 254

quadHeights ==
    <<quadRawH - TL_HEIGHT_REDUCTION, quadRawH - TR_HEIGHT_REDUCTION, quadRawH, quadRawH>>

\* The quadrants visited column by column.
orderByColumn == <<0, 2, 1, 3>>

order == <<0, 1, 2, 3>>

ContName(name) == name \o " (cont.)"

\* Inputs of the pass.  Heights in px.
RawHeights == {18, 24}
TitleMms == {0, 1}
SectionGaps == {0, 2}
HeaderHeights == {1, 3}
ItemHeights == {3, 6}
BumpPx == 11

\* layout: the h2 of an original name is hdr px high, the h2 of a
\* "(cont.)" name hdrCont px (a longer name may wrap); item i is
\* itemH[i % 2] px high; with bump, a list of exactly one item is BumpPx
\* higher, which makes the measure non-monotone in the item count.
Layouts ==
    [hdr : {1}, hdrCont : HeaderHeights, itemH : [0..1 -> ItemHeights], bump : BOOLEAN]

ItemH(i) == layout.itemH[i % 2]

HeaderH(name) ==
    IF \E k \in 1..Len(sections) : sections[k].name = name THEN layout.hdr ELSE layout.hdrCont

measureSection(name, items) ==
    HeaderH(name)
    + SumSeq([k \in 1..Len(items) |-> ItemH(items[k])])
    + (IF layout.bump /\ Len(items) = 1 THEN BumpPx ELSE 0)

\* Section lists: up to MaxSections sections of 1..MaxItems items each
\* (a section reaching the packer has at least one item), MaxTotalItems
\* items at most in all; items are numbered 1, 2, ... in source order, names
\* are "A", "B", ...
SectionNames == <<"A", "B", "C", "D", "E", "F">>

RECURSIVE MkSections(_, _, _)
MkSections(sizes, k, from) ==
    IF k > Len(sizes) THEN <<>>
    ELSE <<[name |-> SectionNames[k],
            items |-> [j \in 1..sizes[k] |-> from + j]]>>
         \o MkSections(sizes, k + 1, from + sizes[k])

SectionLists ==
    UNION {{MkSections(sizes, 1, 0) :
               sizes \in {z \in [1..n -> 1..MaxItems] : SumSeq(z) <= MaxTotalItems}} :
           n \in 1..MaxSections}

(***************************************************************************)
(* Packer: the pass                                                        *)
(***************************************************************************)
section == sections[secIdx]

\* A gap before every entry, the first of a quadrant too.
GapAlways == sectionGapPx

Gap == IF countInQuadrant > 0 THEN sectionGapPx ELSE 0

\* availableH of tryPlaceWhole and currH - usedH - epsilon of the split loop.
AvailableH ==
    quadHeights[q + 1] - usedH - epsilon
    - (IF q = 0 /\ countInQuadrant = 0 THEN mmToPx(titleBlock) ELSE 0)

\* A whole placement that needs room to spare.
tryPlaceWholeStrict ==
    LET h == measureSection(section.name, section.items)
    IN  IF h + Gap < AvailableH THEN [ok |-> TRUE, h |-> h + Gap]
                                ELSE [ok |-> FALSE, h |-> h]

tryPlaceWhole ==
    LET h == measureSection(section.name, section.items)
    IN  IF h + Gap <= AvailableH THEN [ok |-> TRUE, h |-> h + Gap]
                                 ELSE [ok |-> FALSE, h |-> h]

\* Every piece under the section's own name.
PieceNameOriginal == section.name

PieceName == IF start = 0 /\ part = 1 THEN section.name ELSE ContName(section.name)

\* totalH of a candidate slice of mid items, as the binary search measures it.
TotalH(mid) == measureSection(PieceName, Slice(section.items, start, start + mid)) + Gap

SliceFits(mid) == TotalH(mid) <= AvailableH

\* A binary search that returns the first candidate that fits instead of
\* going on to larger ones.
RECURSIVE BinarySearchFirstFit(_, _, _)
BinarySearchFirstFit(lo, hi, bestN) ==
    IF lo > hi THEN bestN
    ELSE LET mid == (lo + hi) \div 2
         IN  IF SliceFits(mid) THEN mid
                               ELSE BinarySearchFirstFit(lo, mid - 1, bestN)

RECURSIVE BinarySearch(_, _, _)
BinarySearch(lo, hi, bestN) ==
    IF lo > hi THEN bestN
    ELSE LET mid == (lo + hi) \div 2
         IN  IF SliceFits(mid) THEN BinarySearch(mid + 1, hi, mid)
                               ELSE BinarySearch(lo, mid - 1, bestN)

BestN == BinarySearch(1, Len(section.items) - start, 0)

\* The emitted slice taken without the start offset.
PieceItemsNoOffset(n) == Slice(section.items, start, n)

\* section.items.slice(start, start + bestN) of the emitted entry.
PieceItems(n) == Slice(section.items, start, start + n)

\* An advance that resets the counters but stays in the quadrant.
advanceInPlace ==
    /\ step' = step
    /\ q' = q
    /\ usedH' = 0
    /\ countInQuadrant' = 0

\* advance(): the primed values of step, q, usedH, countInQuadrant.
advance ==
    /\ step' = Min(step + 1, 3)
    /\ q' = order[Min(step + 1, 3) + 1]
    /\ usedH' = 0
    /\ countInQuadrant' = 0

ParseIdle ==
    /\ src = <<>> /\ lines = <<>> /\ lineIdx = 0
    /\ title = NULL /\ psections = <<>> /\ currentSection = 0
    /\ model = NULL /\ parsePc = "idle"

MatchIdle ==
    /\ SYNONYMS = <<>> /\ rawText = "" /\ iconKey = NULL /\ matchPc = "idle"

\* The page is not part of the run.
AppIdle ==
    /\ bootPc = "idle" /\ lexicon = "idle" /\ hashText = NULL /\ srcValue = ""
    /\ now = 0 /\ timers = {} /\ tid = NULL /\ log = <<>>
    /\ outKind = "none" /\ outStyled = FALSE /\ gridStyled = FALSE
    /\ pdfPc = "idle" /\ btn = NULL /\ notices = {}
    /\ inflight = <<>> /\ outRun = 0 /\ outEntries = {}

NotPack == <<parseVars, matchVars, appVars>>

PackInit ==
    /\ ParseIdle /\ MatchIdle /\ AppIdle
    /\ sections \in SectionLists
    /\ quadRawH \in RawHeights
    /\ titleBlock \in TitleMms
    /\ sectionGapPx \in SectionGaps
    /\ layout \in Layouts
    /\ result = <<<<>>, <<>>, <<>>, <<>>>>
    /\ step = 0 /\ q = 0
    /\ usedH = 0 /\ countInQuadrant = 0
    /\ secIdx = 1
    /\ start = 0 /\ part = 1
    /\ rejected = FALSE
    /\ pc = "section"

PackInputs == <<sections, quadRawH, titleBlock, sectionGapPx, layout>>

\* for (const section of sections): the whole section fits; `continue`.
PlaceWhole ==
    /\ UNCHANGED NotPack
    /\ pc = "section" /\ secIdx <= Len(sections)
    /\ tryPlaceWhole.ok
    /\ result' = [result EXCEPT ![q + 1] =
                     Append(@, [name |-> section.name, items |-> section.items])]
    /\ usedH' = usedH + Gap + (tryPlaceWhole.h - Gap)
    /\ countInQuadrant' = countInQuadrant + 1
    /\ secIdx' = secIdx + 1
    /\ UNCHANGED <<PackInputs, step, q, start, part, rejected, pc>>

\* The whole section does not fit: let start = 0, part = 1 and enter the loop.
SplitStart ==
    /\ UNCHANGED NotPack
    /\ pc = "section" /\ secIdx <= Len(sections)
    /\ ~tryPlaceWhole.ok
    /\ start' = 0 /\ part' = 1
    /\ pc' = IF 0 < Len(section.items) /\ step < 4 THEN "split" ELSE "afterSplit"
    /\ UNCHANGED <<PackInputs, result, step, q, usedH, countInQuadrant, secIdx, rejected>>

\* One iteration of the split loop with bestN > 0: emit the slice.
SplitEmit ==
    /\ UNCHANGED NotPack
    /\ pc = "split"
    /\ BestN > 0
    /\ LET n == BestN
           pureH == measureSection(PieceName, Slice(section.items, start, start + n))
           left == start + n < Len(section.items)
       IN  /\ result' = [result EXCEPT ![q + 1] =
                  Append(@, [name |-> PieceName, items |-> PieceItems(n)])]
           /\ start' = start + n
           /\ part' = part + 1
           /\ IF left /\ step < 3
                 THEN advance /\ pc' = "split" /\ UNCHANGED rejected
                 ELSE /\ usedH' = usedH + Gap + pureH
                      /\ countInQuadrant' = countInQuadrant + 1
                      /\ rejected' = (rejected \/ left)
                      /\ pc' = "afterSplit"
                      /\ UNCHANGED <<step, q>>
    /\ UNCHANGED <<PackInputs, secIdx>>

\* An iteration with bestN = 0 that leaves an entry without items behind.
SplitSkipEmitsEmpty ==
    /\ UNCHANGED NotPack
    /\ pc = "split"
    /\ BestN = 0
    /\ result' = [result EXCEPT ![q + 1] = Append(@, [name |-> PieceName, items |-> <<>>])]
    /\ IF step >= 3
          THEN /\ rejected' = TRUE
               /\ pc' = "afterSplit"
               /\ UNCHANGED <<step, q, usedH, countInQuadrant>>
          ELSE advance /\ pc' = "split" /\ UNCHANGED rejected
    /\ UNCHANGED <<PackInputs, secIdx, start, part>>

\* An iteration with bestN = 0 that advances in the fourth quadrant too.
SplitSkipNoBreak ==
    /\ UNCHANGED NotPack
    /\ pc = "split"
    /\ BestN = 0
    /\ advance /\ pc' = "split"
    /\ UNCHANGED <<PackInputs, result, secIdx, start, part, rejected>>

\* One iteration with bestN = 0: nothing fits here; advance, or break in
\* the fourth quadrant.
SplitSkip ==
    /\ UNCHANGED NotPack
    /\ pc = "split"
    /\ BestN = 0
    /\ IF step >= 3
          THEN /\ rejected' = TRUE
               /\ pc' = "afterSplit"
               /\ UNCHANGED <<step, q, usedH, countInQuadrant>>
          ELSE advance /\ pc' = "split" /\ UNCHANGED rejected
    /\ UNCHANGED <<PackInputs, result, secIdx, start, part>>

\* if (step >= 3 && usedH >= quadHeights[q]) break;  else the next section.
AfterSplit ==
    /\ UNCHANGED NotPack
    /\ pc = "afterSplit"
    /\ IF step >= 3 /\ usedH >= quadHeights[q + 1]
          THEN pc' = "done" /\ UNCHANGED secIdx
          ELSE pc' = "section" /\ secIdx' = secIdx + 1
    /\ UNCHANGED <<PackInputs, result, step, q, usedH, countInQuadrant, start, part, rejected>>

\* The for loop is exhausted: return result.
PackReturn ==
    /\ UNCHANGED NotPack
    /\ pc = "section" /\ secIdx > Len(sections)
    /\ pc' = "done"
    /\ UNCHANGED <<PackInputs, result, step, q, usedH, countInQuadrant, secIdx, start, part,
                   rejected>>

PackNext == PlaceWhole \/ SplitStart \/ SplitEmit \/ SplitSkip \/ AfterSplit \/ PackReturn

SpecPack == PackInit /\ [][PackNext]_vars

(***************************************************************************)
(* Packer: properties                                                      *)
(***************************************************************************)
Last(s) == s[Len(s)]

\* The items of all entries, read in visiting order TL, TR, BL, BR.
PlacedItems ==
    Flatten([i \in 1..4 |-> Flatten([k \in 1..Len(result[i]) |-> result[i][k].items])])

\* The items of the input sections in source order.
SourceItems == Flatten([k \in 1..Len(sections) |-> sections[k].items])

Remaining == Len(section.items) - start

\* The measure is non-decreasing in the item count for the slices the
\* split loop can try at this point.
MonotoneHere == \A k \in 1..(Remaining - 1) : TotalH(k) <= TotalH(k + 1)

SomeSliceFits == \E k \in 1..Remaining : SliceFits(k)

\* The largest K whose slice fits, stated without the search.
LargestFit ==
    CHOOSE k \in 1..Remaining : SliceFits(k) /\ \A j \in (k + 1)..Remaining : ~SliceFits(j)

\* The current quadrant receives exactly the first LargestFit remaining
\* items under the piece's name.
EmitsLargest ==
    /\ result'[q + 1] =
           Append(result[q + 1],
                  [name |-> PieceName,
                   items |-> SubSeq(section.items, start + 1, start + LargestFit)])
    /\ \A i \in 1..4 : i # q + 1 => result'[i] = result[i]
    /\ start' = start + LargestFit

ContinuesInNextQuadrant ==
    /\ step' = step + 1 /\ q' = q + 1
    /\ usedH' = 0 /\ countInQuadrant' = 0
    /\ pc' = "split" /\ secIdx' = secIdx

\* C1 as stated: for a measure that is non-decreasing in the item count,
\* when the section does not fit whole but some first K >= 1 remaining items
\* do, the piece emitted into the current quadrant holds exactly the largest
\* such K, and whenever items remain they are continued in the next quadrant.
C1_SplitThenNextQuadrant ==
    [][(pc = "split" /\ MonotoneHere /\ SomeSliceFits) =>
          /\ EmitsLargest
          /\ (LargestFit < Remaining => ContinuesInNextQuadrant)]_vars

\* C1 (amended): for a measure that is non-decreasing in the item count, the
\* piece emitted into the current quadrant holds exactly the largest K >= 1
\* whose slice (plus the section gap if the quadrant already has an entry)
\* fits the remaining capacity; if items remain, the packer moves on to the
\* next quadrant and continues the search there with the remaining items,
\* unless the current quadrant is the fourth, where the remaining items of
\* the section are dropped.
C1_LargestSlice ==
    [][(pc = "split" /\ MonotoneHere /\ SomeSliceFits) =>
          /\ EmitsLargest
          /\ (LargestFit < Remaining /\ step < 3 => ContinuesInNextQuadrant)
          /\ (LargestFit < Remaining /\ step >= 3 =>
                 /\ pc' = "afterSplit" /\ rejected'
                 /\ step' = step /\ q' = q)]_vars

\* A section was split under a monotone measure: its first piece, of two or
\* more items, closes the previous quadrant and the rest is being continued.
C1_Witness ==
    /\ pc = "split" /\ ~layout.bump
    /\ start >= 2 /\ start < Len(section.items)
    /\ step >= 1 /\ Len(result[q]) > 0
    /\ Last(result[q]) = [name |-> section.name, items |-> SubSeq(section.items, 1, start)]

\* C2: when the pass ends without the fourth quadrant having rejected an
\* item, the entries read in visiting order hold exactly the input items in
\* source order; in every case every placed item is an input item and the
\* placed count does not exceed the input count.
C2_ItemsPreserved ==
    /\ (pc = "done" /\ ~rejected) => PlacedItems = SourceItems
    /\ {PlacedItems[k] : k \in 1..Len(PlacedItems)} \subseteq
           {SourceItems[j] : j \in 1..Len(SourceItems)}
    /\ Len(PlacedItems) <= Len(SourceItems)

\* A pass that ended with nothing rejected, after splitting a section, with
\* entries in three quadrants or more.
C2_Witness ==
    /\ pc = "done" /\ ~rejected
    /\ Cardinality({i \in 1..4 : Len(result[i]) > 0}) >= 3
    /\ \E i \in 1..4 : \E k \in 1..Len(result[i]) :
           \A j \in 1..Len(sections) : result[i][k].name # sections[j].name

\* C3: the items placed across the four quadrants always form a prefix of
\* the source item sequence (nothing that follows a dropped item is placed).
C3_PlacedIsPrefix == IsPrefix(PlacedItems, SourceItems)

\* The entries of result in visiting order, each with its quadrant (1..4).
Entries ==
    Flatten([i \in 1..4 |->
        [k \in 1..Len(result[i]) |->
            [quad |-> i, name |-> result[i][k].name, items |-> result[i][k].items]]])

\* The entry was emitted for source section k.
EntryOf(e, k) == e.name \in {sections[k].name, ContName(sections[k].name)}

PositionsOf(k) == {p \in 1..Len(Entries) : EntryOf(Entries[p], k)}

\* The items of the entries of section k, concatenated in visiting order.
PiecesOf(k) ==
    LET es == SelectSeq(Entries, LAMBDA e : EntryOf(e, k))
    IN  Flatten([p \in 1..Len(es) |-> es[p].items])

\* C11: for every source section, its entries in visiting order hold
\* consecutive slices of its item list (concatenated they are a prefix of the
\* list, no item twice), each entry lies in a different quadrant, and no
\* entry of another section lies between two of them.
C11_PiecesOfOneSection ==
    \A k \in 1..Len(sections) :
        /\ IsPrefix(PiecesOf(k), sections[k].items)
        /\ \A p1, p2 \in PositionsOf(k) :
               /\ p1 # p2 => Entries[p1].quad # Entries[p2].quad
               /\ \A p \in p1..p2 : p \in PositionsOf(k)

\* A finished pass where a section lies in three quadrants or more, behind
\* an entry of another section in the quadrant of its first piece.
C11_Witness ==
    /\ pc = "done"
    /\ \E k \in 1..Len(sections) :
           /\ Cardinality(PositionsOf(k)) >= 3
           /\ \E p \in 1..Len(Entries) :
                  /\ ~EntryOf(Entries[p], k)
                  /\ \E p1 \in PositionsOf(k) : Entries[p1].quad = Entries[p].quad

\* The capacity that is left in the current quadrant for the next entry.
RemainingCapacity ==
    quadHeights[q + 1] - usedH - epsilon
    - (IF q = 0 /\ result[1] = <<>> THEN mmToPx(titleBlock) ELSE 0)

\* The height the section needs as a whole: its measure, and the section gap
\* if the quadrant already has an entry.
WholeNeed ==
    measureSection(section.name, section.items)
    + (IF result[q + 1] # <<>> THEN sectionGapPx ELSE 0)

\* C18: when the packer turns to a section, the section is appended to the
\* current quadrant as one entry with its own name and all its items exactly
\* when its measure plus the gap is at most the remaining capacity, equality
\* included, and then the quadrant stays the current one; otherwise nothing
\* is appended in this step and the section goes to the split loop.
C18_WholePlacement ==
    [][(pc = "section" /\ secIdx <= Len(sections)) =>
          IF WholeNeed <= RemainingCapacity
             THEN /\ result' = [result EXCEPT ![q + 1] =
                                   Append(@, [name |-> section.name, items |-> section.items])]
                  /\ q' = q /\ step' = step
                  /\ pc' = "section" /\ secIdx' = secIdx + 1
             ELSE /\ result' = result
                  /\ pc' = "split" /\ secIdx' = secIdx /\ start' = 0]_vars

\* A second section was placed whole and filled the quadrant to the last
\* pixel of its capacity.
C18_Witness ==
    /\ pc = "section" /\ secIdx > 1
    /\ Len(result[q + 1]) >= 2
    /\ usedH = quadHeights[q + 1] - epsilon
    /\ Last(result[q + 1]) =
           [name |-> sections[secIdx - 1].name, items |-> sections[secIdx - 1].items]

\* The height of the entries of quadrant i, each measured under the name it
\* carries, with the gaps between them.
QuadrantHeight(i) ==
    SumSeq([k \in 1..Len(result[i]) |-> measureSection(result[i][k].name, result[i][k].items)])
    + (IF Len(result[i]) > 1 THEN (Len(result[i]) - 1) * sectionGapPx ELSE 0)

\* C19: every entry belongs to a source section; the first entry of a
\* section carries the section's name, every later one that name followed by
\* " (cont.)" once; and the entries fit their quadrant when measured under
\* the names they carry (the first entry of the first quadrant below the
\* title block).
C19_Naming ==
    [](/\ \A p \in 1..Len(Entries) : \E k \in 1..Len(sections) : EntryOf(Entries[p], k)
       /\ \A k \in 1..Len(sections) : \A p \in PositionsOf(k) :
              Entries[p].name =
                  IF \A r \in PositionsOf(k) : p <= r THEN sections[k].name
                  ELSE ContName(sections[k].name)
       /\ \A i \in 1..4 : QuadrantHeight(i) <= quadHeights[i] - epsilon
       /\ result[1] # <<>> =>
              measureSection(result[1][1].name, result[1][1].items)
                  <= quadHeights[1] - epsilon - mmToPx(titleBlock))

\* A finished pass whose first section fitted nowhere in the first quadrant
\* and lies in two later quadrants or more.
C19_Witness ==
    /\ pc = "done"
    /\ result[1] = <<>>
    /\ Cardinality(PositionsOf(1)) >= 2
    /\ \E p \in PositionsOf(1) : Entries[p].name = sections[1].name
    /\ \E p \in PositionsOf(1) : Entries[p].name = ContName(sections[1].name)

\* C20: the current quadrant is the one at the current step of the order TL,
\* TR, BL, BR; a step of the pass leaves it or moves it on by one; an entry
\* is appended to the current quadrant only, so the quadrants passed keep
\* their entries and the ones ahead are empty; result has four lists.
C20_VisitingOrder ==
    /\ [](Len(result) = 4 /\ step \in 0..3 /\ q = step)
    /\ [](\A i \in 1..4 : i > q + 1 => result[i] = <<>>)
    /\ [][/\ q' \in {q, q + 1}
          /\ \A i \in 1..4 : i # q + 1 => result'[i] = result[i]
          /\ IsPrefix(result[q + 1], result'[q + 1])]_vars

\* A finished pass that went through all four quadrants and left entries in
\* each.
C20_Witness ==
    /\ pc = "done"
    /\ q = 3
    /\ \A i \in 1..4 : result[i] # <<>>

\* C21: in every quadrant the measured heights of the entries plus one
\* section gap between consecutive entries are at most the quadrant's height
\* minus epsilon, and usedH is that sum for the current quadrant at every
\* step.
C21_Capacity ==
    [](/\ \A i \in 1..4 : QuadrantHeight(i) <= quadHeights[i] - epsilon
       /\ usedH = QuadrantHeight(q + 1))

\* A finished pass with a positive gap, two entries in one quadrant and an
\* entry in another.
C21_Witness ==
    /\ pc = "done"
    /\ sectionGapPx > 0
    /\ usedH > 0
    /\ \E i, j \in 1..4 : i # j /\ Len(result[i]) >= 2 /\ result[j] # <<>>

\* C22: in the split loop, when the current quadrant is not the fourth and
\* no slice of one item or more of the section fits, the step advances to the
\* next quadrant with usedH and countInQuadrant reset, emits nothing, and
\* stays in the loop with the same start; and no entry has zero items.
C22_SkipOnZeroFit ==
    /\ [](\A p \in 1..Len(Entries) : Len(Entries[p].items) >= 1)
    /\ [][(pc = "split" /\ step < 3 /\ ~SomeSliceFits) =>
              /\ step' = step + 1 /\ q' = q + 1
              /\ usedH' = 0 /\ countInQuadrant' = 0
              /\ result' = result
              /\ pc' = "split" /\ secIdx' = secIdx
              /\ start' = start /\ part' = part]_vars

\* The split loop has just left a quadrant that holds entries of other
\* sections only; nothing of the current section is emitted yet.
C22_Witness ==
    /\ pc = "split"
    /\ step >= 1 /\ start = 0
    /\ usedH = 0 /\ countInQuadrant = 0
    /\ result[q] # <<>>
    /\ PositionsOf(secIdx) = {}

\* What the split loop has left to do at most: quadrants to advance to and
\* items to emit.
SplitBudget == (3 - step) + (Len(section.items) - start)

\* A bound on the steps the pass has left: the sections not yet finished,
\* each weighed above the longest way through one section, and the rest of
\* the way through the current one.
StepsLeft ==
    LET weight == Len(SourceItems) + 6
        open == Len(sections) + 1 - secIdx
    IN  CASE pc = "done" -> 0
          [] pc = "section" -> 1 + open * weight + (weight - 1)
          [] pc = "split" -> 1 + open * weight + 1 + SplitBudget
          [] pc = "afterSplit" -> 1 + open * weight

\* C24: the pass ends and returns, whatever the sections and the measure:
\* until it has returned it has a step that changes the state (in the split
\* loop the search gives a count; a positive count moves start on, and with
\* count zero the skip advances or, in the fourth quadrant, breaks), and
\* every step lowers a bound that cannot go below zero.
C24_Termination ==
    /\ [](StepsLeft >= 0)
    /\ [](pc \in {"section", "afterSplit"} =>
            ENABLED <<PlaceWhole \/ SplitStart \/ AfterSplit \/ PackReturn>>_vars)
    /\ [](pc = "split" =>
            IF BestN > 0 THEN BestN <= Remaining ELSE ENABLED <<SplitSkip>>_vars)
    /\ [][StepsLeft' < StepsLeft]_vars

\* The pass has returned although the first section fitted in no quadrant
\* and the split loop gave up in the fourth.
C24_Witness ==
    /\ pc = "done"
    /\ step = 3
    /\ rejected
    /\ PositionsOf(1) = {}

\* C26: the entries of TL with the gaps between them and the title block
\* never exceed the height of TL, however many entries TL holds.
C26_TitleReserved ==
    QuadrantHeight(1) + mmToPx(titleBlock) <= quadHeights[1]

(***************************************************************************)
(* Parser: characters and the six patterns of `re`                         *)
(*                                                                         *)
(* A text is a sequence of one-character strings.  The two custom glyphs   *)
(* of yourChecked / yourUnchecked are one symbol each.                     *)
(***************************************************************************)
LF == "\n"
CR == "\r"
YourCheckedGlyph == "{check}"
YourUncheckedGlyph == "{circle}"

\* \s of a JavaScript regular expression, over the characters used here.
IsWs(c) == c \in {" ", "\t", CR, LF}

\* . of a JavaScript regular expression: anything but a line terminator.
IsDot(c) == c \notin {LF, CR}

IsBullet(c) == c \in {"-", "*", "+"}

\* The first position >= i that holds no whitespace (Len(s) + 1 if none):
\* where a greedy \s* or \s+ starting at i stops.
SkipWs(s, i) ==
    CHOOSE j \in i..(Len(s) + 1) :
        /\ \A k \in i..(j - 1) : IsWs(s[k])
        /\ (j = Len(s) + 1 \/ ~IsWs(s[j]))

\* The first position >= i that . does not match (Len(s) + 1 if none).
DotEnd(s, i) ==
    CHOOSE j \in i..(Len(s) + 1) :
        /\ \A k \in i..(j - 1) : IsDot(s[k])
        /\ (j = Len(s) + 1 \/ ~IsDot(s[j]))

\* The number of "#" from position i on.
HashRun(s, i) ==
    CHOOSE n \in 0..(Len(s) + 1 - i) :
        /\ \A k \in i..(i + n - 1) : s[k] = "#"
        /\ (i + n = Len(s) + 1 \/ s[i + n] # "#")

NoMatch == [ok |-> FALSE, text |-> <<>>, level |-> 0]

\* \s+(.*)$ from position i: the whitespace is taken greedily and the
\* group must reach the end of the text.
TailGroup(s, i) ==
    IF i > Len(s) \/ ~IsWs(s[i]) THEN NoMatch
    ELSE LET k == SkipWs(s, i)
         IN  IF DotEnd(s, k) = Len(s) + 1
                THEN [ok |-> TRUE, text |-> SubSeq(s, k, Len(s)), level |-> 0]
                ELSE NoMatch

\* atx: /^\s*(#{1,6})\s+(.*)\s*$/
MatchAtx(s) ==
    LET i == SkipWs(s, 1)
        r == HashRun(s, i)
    IN  IF r >= 1 /\ r <= 6 /\ i + r <= Len(s) /\ IsWs(s[i + r])
           THEN LET k == SkipWs(s, i + r)
                    p == DotEnd(s, k)
                IN  IF SkipWs(s, p) = Len(s) + 1
                       THEN [ok |-> TRUE, text |-> SubSeq(s, k, p - 1), level |-> r]
                       ELSE NoMatch
           ELSE NoMatch

\* ^\s*[-*+]\s*\[ ... the position of the "[" of a checkbox, 0 if none.
BoxAt(s) ==
    LET i == SkipWs(s, 1)
    IN  IF i <= Len(s) /\ IsBullet(s[i])
           THEN LET j == SkipWs(s, i + 1)
                IN  IF j + 2 <= Len(s) /\ s[j] = "[" /\ s[j + 2] = "]" THEN j ELSE 0
           ELSE 0

\* mdUnchecked: /^\s*[-*+]\s*\[\s\]\s+(.*)$/
MatchMdUnchecked(s) ==
    LET j == BoxAt(s)
    IN  IF j > 0 /\ IsWs(s[j + 1]) THEN TailGroup(s, j + 3) ELSE NoMatch

\* mdChecked: /^\s*[-*+]\s*\[[xX]\]\s+(.*)$/
MatchMdChecked(s) ==
    LET j == BoxAt(s)
    IN  IF j > 0 /\ s[j + 1] \in {"x", "X"} THEN TailGroup(s, j + 3) ELSE NoMatch

\* yourChecked, yourUnchecked: /^\s*<glyph>\s+(.*)$/
MatchGlyph(s, glyph) ==
    LET i == SkipWs(s, 1)
    IN  IF i <= Len(s) /\ s[i] = glyph THEN TailGroup(s, i + 1) ELSE NoMatch

MatchYourChecked(s) == MatchGlyph(s, YourCheckedGlyph)

MatchYourUnchecked(s) == MatchGlyph(s, YourUncheckedGlyph)

\* fallbackBullet: /^\s*[-*+]\s+(.*)$/
MatchFallbackBullet(s) ==
    LET i == SkipWs(s, 1)
    IN  IF i <= Len(s) /\ IsBullet(s[i]) THEN TailGroup(s, i + 1) ELSE NoMatch

\* s.replace(/\s+$/, '')
RECURSIVE RTrim(_)
RTrim(s) == IF s # <<>> /\ IsWs(s[Len(s)]) THEN RTrim(SubSeq(s, 1, Len(s) - 1)) ELSE s

\* s.trim()
Trim(s) == LET t == RTrim(s) IN SubSeq(t, SkipWs(t, 1), Len(t))

\* src.split(/\r?\n/)
RECURSIVE SplitLines(_)
SplitLines(s) ==
    IF \A k \in 1..Len(s) : s[k] # LF THEN <<s>>
    ELSE LET p == CHOOSE k \in 1..Len(s) : s[k] = LF /\ \A j \in 1..(k - 1) : s[j] # LF
             e == IF p > 1 /\ s[p - 1] = CR THEN p - 2 ELSE p - 1
         IN  <<SubSeq(s, 1, e)>> \o SplitLines(SubSeq(s, p + 1, Len(s)))

(***************************************************************************)
(* Parser: source texts                                                    *)
(***************************************************************************)
SampleLines ==
    { <<"-", " ", "[", "x", "]", " ", "a">>,          \* - [x] a
      <<"-", "[", "X", "]", " ", "b">>,               \* -[X] b
      <<"-", " ", "[", " ", "]", " ", "c">>,          \* - [ ] c
      <<"-", " ", "[", "x", "]">>,                    \* - [x]     (no text)
      <<" ", "*", " ", "d", " ">>,                    \*  * d      (padded)
      <<YourCheckedGlyph, " ", "f">>,
      <<YourUncheckedGlyph, " ", "g">>,
      <<"#", " ", "T">>,                              \* # T
      <<"#", "#", " ", "S", CR>>,                     \* ## S, CR before the LF
      <<"p", " ">>,                                   \* a plain line, padded
      <<>> }                                          \* empty

RECURSIVE JoinLines(_)
JoinLines(ls) ==
    IF Len(ls) = 0 THEN <<>>
    ELSE IF Len(ls) = 1 THEN ls[1]
    ELSE ls[1] \o <<LF>> \o JoinLines(Tail(ls))

Sources ==
    UNION {{JoinLines(ls) : ls \in [1..n -> SampleLines]} : n \in 0..MaxLines}

(***************************************************************************)
(* Parser: parseMarkdownList                                               *)
(***************************************************************************)
\* !title
Falsy(t) == t = NULL \/ t = <<>>

line == RTrim(lines[lineIdx])

ItemsName == <<"I", "t", "e", "m", "s">>
ListTitle == <<"L", "i", "s", "t">>

\* The chain with the plain bullet tested first.
ItemMatchBulletFirst(s) ==
    IF MatchFallbackBullet(s).ok
       THEN [isItem |-> TRUE, checked |-> FALSE, text |-> MatchFallbackBullet(s).text]
    ELSE IF MatchYourChecked(s).ok
       THEN [isItem |-> TRUE, checked |-> TRUE, text |-> MatchYourChecked(s).text]
    ELSE IF MatchYourUnchecked(s).ok
       THEN [isItem |-> TRUE, checked |-> FALSE, text |-> MatchYourUnchecked(s).text]
    ELSE [isItem |-> FALSE, checked |-> FALSE, text |-> <<>>]

\* The if / else-if chain over the five item patterns:
\* [isItem, checked, text].
ItemMatch(s) ==
    IF MatchMdChecked(s).ok
       THEN [isItem |-> TRUE, checked |-> TRUE, text |-> MatchMdChecked(s).text]
    ELSE IF MatchMdUnchecked(s).ok
       THEN [isItem |-> TRUE, checked |-> FALSE, text |-> MatchMdUnchecked(s).text]
    ELSE IF MatchYourChecked(s).ok
       THEN [isItem |-> TRUE, checked |-> TRUE, text |-> MatchYourChecked(s).text]
    ELSE IF MatchYourUnchecked(s).ok
       THEN [isItem |-> TRUE, checked |-> FALSE, text |-> MatchYourUnchecked(s).text]
    ELSE IF MatchFallbackBullet(s).ok
       THEN [isItem |-> TRUE, checked |-> FALSE, text |-> MatchFallbackBullet(s).text]
    ELSE [isItem |-> FALSE, checked |-> FALSE, text |-> <<>>]

\* ensureSection(name): the sections after the push.
ensureSection(ss, name) == Append(ss, [name |-> Trim(name), items |-> <<>>])

\* A heading that takes the title whatever its level.
HeadingIsTitleAnyLevel(level, t) == Falsy(t)

\* level === 1 && !title
HeadingIsTitle(level, t) == level = 1 /\ Falsy(t)

\* An item line that always opens a fresh "Items" section.
NeedsItemsSectionAlways(cur) == TRUE

\* !currentSection
NeedsItemsSection(cur) == cur = 0

\* The item pushed whether checked or not.
PushItemAlways(items, checked, text) == Append(items, Trim(text))

\* if (!checked) currentSection.items.push(text.trim())
PushItem(items, checked, text) == IF ~checked THEN Append(items, Trim(text)) ELSE items

\* No filtering of the sections.
KeepAllSections(ss) == ss

\* sections.filter(s => s.items.length > 0)
FilterSections(ss) == SelectSeq(ss, LAMBDA s : Len(s.items) > 0)

PackIdle ==
    /\ sections = <<>> /\ quadRawH = 0 /\ titleBlock = 0 /\ sectionGapPx = 0
    /\ layout = NULL /\ result = <<>> /\ step = 0 /\ q = 0
    /\ usedH = 0 /\ countInQuadrant = 0 /\ secIdx = 0 /\ start = 0 /\ part = 0
    /\ rejected = FALSE /\ pc = "idle"

NotParse == <<packVars, matchVars, appVars>>

ParseInit ==
    /\ PackIdle /\ MatchIdle /\ AppIdle
    /\ src \in Sources
    /\ lines = SplitLines(src)
    /\ lineIdx = 1
    /\ title = NULL
    /\ psections = <<>>
    /\ currentSection = 0
    /\ model = NULL
    /\ parsePc = "lines"

InLoop == parsePc = "lines" /\ lineIdx <= Len(lines)

\* if (!line.trim()) continue;
SkipBlank ==
    /\ UNCHANGED NotParse
    /\ InLoop
    /\ Trim(line) = <<>>
    /\ lineIdx' = lineIdx + 1
    /\ UNCHANGED <<src, lines, title, psections, currentSection, model, parsePc>>

\* The line matches re.atx.
Heading ==
    /\ UNCHANGED NotParse
    /\ InLoop
    /\ Trim(line) # <<>>
    /\ MatchAtx(line).ok
    /\ LET mAtx == MatchAtx(line)
           text == Trim(mAtx.text)
       IN  IF HeadingIsTitle(mAtx.level, title)
              THEN title' = text /\ UNCHANGED <<psections, currentSection>>
              ELSE /\ psections' = ensureSection(psections, text)
                   /\ currentSection' = Len(psections) + 1
                   /\ UNCHANGED title
    /\ lineIdx' = lineIdx + 1
    /\ UNCHANGED <<src, lines, model, parsePc>>

\* The line matches one of the five item patterns.
ItemLine ==
    /\ UNCHANGED NotParse
    /\ InLoop
    /\ Trim(line) # <<>>
    /\ ~MatchAtx(line).ok
    /\ ItemMatch(line).isItem
    /\ LET m == ItemMatch(line)
           ss == IF NeedsItemsSection(currentSection)
                    THEN ensureSection(psections, ItemsName) ELSE psections
           cur == IF NeedsItemsSection(currentSection)
                     THEN Len(psections) + 1 ELSE currentSection
       IN  IF cur = 0
              THEN \* currentSection.items of null: a TypeError ends the parse
                   /\ parsePc' = "threw"
                   /\ UNCHANGED <<psections, currentSection, lineIdx>>
              ELSE /\ psections' = [ss EXCEPT ![cur].items = PushItem(@, m.checked, m.text)]
                   /\ currentSection' = cur
                   /\ lineIdx' = lineIdx + 1
                   /\ UNCHANGED parsePc
    /\ UNCHANGED <<src, lines, title, model>>

\* Any other non-blank line: the title, or a new section.
OtherLine ==
    /\ UNCHANGED NotParse
    /\ InLoop
    /\ Trim(line) # <<>>
    /\ ~MatchAtx(line).ok
    /\ ~ItemMatch(line).isItem
    /\ IF Falsy(title)
          THEN title' = Trim(line) /\ UNCHANGED <<psections, currentSection>>
          ELSE /\ psections' = ensureSection(psections, Trim(line))
               /\ currentSection' = Len(psections) + 1
               /\ UNCHANGED title
    /\ lineIdx' = lineIdx + 1
    /\ UNCHANGED <<src, lines, model, parsePc>>

\* return { title: title || 'List', sections: sections.filter(...) }
ParseReturn ==
    /\ UNCHANGED NotParse
    /\ parsePc = "lines" /\ lineIdx > Len(lines)
    /\ model' = [title |-> IF Falsy(title) THEN ListTitle ELSE title,
                 sections |-> FilterSections(psections)]
    /\ parsePc' = "done"
    /\ UNCHANGED <<src, lines, lineIdx, title, psections, currentSection>>

ParseNext == SkipBlank \/ Heading \/ ItemLine \/ OtherLine \/ ParseReturn

SpecParse == ParseInit /\ [][ParseNext]_vars

(***************************************************************************)
(* Parser: properties                                                      *)
(*                                                                         *)
(* The kinds of line are stated here from the patterns in the order the    *)
(* specification lists them (item patterns first, heading last), on the    *)
(* line without its trailing whitespace.                                   *)
(***************************************************************************)
KindOf(raw) ==
    LET l == RTrim(raw)
    IN  IF Trim(l) = <<>> THEN "blank"
        ELSE IF MatchMdChecked(l).ok THEN "checked"
        ELSE IF MatchMdUnchecked(l).ok THEN "unchecked"
        ELSE IF MatchYourChecked(l).ok THEN "checked"
        ELSE IF MatchYourUnchecked(l).ok THEN "unchecked"
        ELSE IF MatchFallbackBullet(l).ok THEN "unchecked"
        ELSE IF MatchAtx(l).ok THEN "heading"
        ELSE "other"

\* The trimmed text of an unchecked item line.
ItemTextOf(raw) ==
    LET l == RTrim(raw)
    IN  Trim(IF MatchMdUnchecked(l).ok THEN MatchMdUnchecked(l).text
             ELSE IF MatchYourUnchecked(l).ok THEN MatchYourUnchecked(l).text
             ELSE MatchFallbackBullet(l).text)

\* The text of a heading or of a non-matching line.
NameTextOf(raw) ==
    IF KindOf(raw) = "heading" THEN Trim(MatchAtx(RTrim(raw)).text) ELSE Trim(raw)

IsTitleCandidate(raw) ==
    \/ KindOf(raw) = "other"
    \/ KindOf(raw) = "heading" /\ MatchAtx(RTrim(raw)).level = 1

\* The first line that is a level-1 heading or a non-matching line; 0 if none.
FirstTitleLine ==
    IF \E i \in 1..Len(lines) : IsTitleCandidate(lines[i])
       THEN CHOOSE i \in 1..Len(lines) :
                /\ IsTitleCandidate(lines[i])
                /\ \A j \in 1..(i - 1) : ~IsTitleCandidate(lines[j])
       ELSE 0

\* Line i starts a section: a heading or non-matching line that is not the title line.
StartsSection(i) == KindOf(lines[i]) \in {"heading", "other"} /\ i # FirstTitleLine

\* The texts of the unchecked item lines among lines a..b, in order.
RECURSIVE UncheckedTexts(_, _)
UncheckedTexts(a, b) ==
    IF a > b THEN <<>>
    ELSE (IF KindOf(lines[a]) = "unchecked" THEN <<ItemTextOf(lines[a])>> ELSE <<>>)
         \o UncheckedTexts(a + 1, b)

OutputItems == Flatten([k \in 1..Len(model.sections) |-> model.sections[k].items])

\* C4: the items of all output sections, read in order, are exactly the
\* trimmed texts of the unchecked item lines in source order; a checked item
\* line contributes nothing, so a text without unchecked item lines yields
\* zero sections.
C4_ItemFilter ==
    parsePc = "done" =>
        /\ OutputItems = UncheckedTexts(1, Len(lines))
        /\ ((\A i \in 1..Len(lines) : KindOf(lines[i]) # "unchecked") => model.sections = <<>>)

\* A finished parse of a text with a checked and two unchecked item lines.
C4_Witness ==
    /\ parsePc = "done"
    /\ \E i \in 1..Len(lines) : KindOf(lines[i]) = "checked"
    /\ Len(OutputItems) >= 2

\* No starter before line i.
NoStarterBefore(i) == \A j \in 1..(i - 1) : ~StartsSection(j)

\* The last section-starting line before line i; 0 if none.
StarterBefore(i) ==
    IF NoStarterBefore(i) THEN 0
    ELSE CHOOSE j \in 1..(i - 1) :
             StartsSection(j) /\ \A k \in (j + 1)..(i - 1) : ~StartsSection(k)

\* The end of the group opened at line i (0: the implicit group).
GroupEnd(i) ==
    IF \E j \in (i + 1)..Len(lines) : StartsSection(j)
       THEN (CHOOSE j \in (i + 1)..Len(lines) :
                 StartsSection(j) /\ \A k \in (i + 1)..(j - 1) : ~StartsSection(k)) - 1
       ELSE Len(lines)

\* The sections the grouping rule gives, for the starters i..Len(lines)
\* (i = 0: the implicit "Items" group first).
RECURSIVE ExpectedSections(_)
ExpectedSections(i) ==
    IF i > Len(lines) THEN <<>>
    ELSE (IF (i = 0 \/ StartsSection(i)) /\ UncheckedTexts(i + 1, GroupEnd(i)) # <<>>
             THEN <<[name |-> IF i = 0 THEN ItemsName ELSE NameTextOf(lines[i]),
                     items |-> UncheckedTexts(i + 1, GroupEnd(i))]>>
             ELSE <<>>)
         \o ExpectedSections(i + 1)

\* C5: the title is assigned at most once, to the text of the first line that
\* is a level-1 heading or matches no pattern; every other heading or
\* non-matching line starts a new section and leaves the title alone; the
\* title is "List" when there is no such line.
C5_TitleRule ==
    /\ [](parsePc = "done" =>
            model.title = IF FirstTitleLine = 0 THEN ListTitle
                          ELSE NameTextOf(lines[FirstTitleLine]))
    /\ [][/\ (title # NULL => title' = title)
          /\ (InLoop /\ KindOf(lines[lineIdx]) \in {"heading", "other"} =>
                IF lineIdx = FirstTitleLine
                   THEN /\ title' = NameTextOf(lines[lineIdx])
                        /\ psections' = psections
                   ELSE /\ title' = title
                        /\ psections' = Append(psections,
                               [name |-> NameTextOf(lines[lineIdx]), items |-> <<>>])
                        /\ currentSection' = Len(psections) + 1)]_vars

\* A finished parse where a level-2 heading came first and opened a section,
\* a later level-1 heading took the title, and a later candidate line opened
\* a section.
C5_Witness ==
    /\ parsePc = "done"
    /\ FirstTitleLine > 1
    /\ KindOf(lines[FirstTitleLine]) = "heading"
    /\ \E i \in 1..(FirstTitleLine - 1) : KindOf(lines[i]) = "heading"
    /\ \E k \in (FirstTitleLine + 1)..Len(lines) : IsTitleCandidate(lines[k])
    /\ Len(psections) = 2

\* C6: every kept item is in the section started by the nearest preceding
\* section-starting line, and in a section named "Items" when none precedes
\* it; the title line starts no section.
C6_Grouping ==
    /\ parsePc = "done" => model.sections = ExpectedSections(0)
    /\ \A k \in 1..Len(psections) :
          psections[k].name = ItemsName \/ \E i \in 1..Len(lines) :
              StartsSection(i) /\ psections[k].name = NameTextOf(lines[i])

\* A finished parse where the title line is directly followed by an unchecked
\* item, which went to "Items", and a later heading opened its own section.
C6_Witness ==
    /\ parsePc = "done"
    /\ Len(lines) >= 3
    /\ FirstTitleLine = 1
    /\ KindOf(lines[2]) = "unchecked"
    /\ StartsSection(3)
    /\ Len(model.sections) = 1 /\ model.sections[1].name = ItemsName
    /\ Len(psections) = 2

\* C7: the parse never raises on its way to the return, and every section of
\* the returned model has at least one item.
C7_NoEmptySection ==
    /\ parsePc # "threw"
    /\ parsePc = "lines" => lineIdx \in 1..(Len(lines) + 1)
    /\ parsePc = "done" =>
          /\ model.title # <<>>
          /\ \A k \in 1..Len(model.sections) : Len(model.sections[k].items) >= 1

\* A finished parse where a checked line created the implicit "Items"
\* section, which stayed empty and was removed.
C7_Witness ==
    /\ parsePc = "done"
    /\ Len(psections) >= 2
    /\ psections[1] = [name |-> ItemsName, items |-> <<>>]
    /\ Len(model.sections) = Len(psections) - 1
    /\ Len(model.sections) >= 1

\* The rule that classifies a line when the patterns are tried in the order
\* checked checkbox, unchecked checkbox, custom checked, custom unchecked,
\* plain bullet, heading, and the fallback last; with the captured text.
RuleOf(raw) ==
    LET l == RTrim(raw)
    IN  IF Trim(l) = <<>> THEN [rule |-> "blank", text |-> <<>>]
        ELSE IF MatchMdChecked(l).ok
           THEN [rule |-> "mdChecked", text |-> MatchMdChecked(l).text]
        ELSE IF MatchMdUnchecked(l).ok
           THEN [rule |-> "mdUnchecked", text |-> MatchMdUnchecked(l).text]
        ELSE IF MatchYourChecked(l).ok
           THEN [rule |-> "yourChecked", text |-> MatchYourChecked(l).text]
        ELSE IF MatchYourUnchecked(l).ok
           THEN [rule |-> "yourUnchecked", text |-> MatchYourUnchecked(l).text]
        ELSE IF MatchFallbackBullet(l).ok
           THEN [rule |-> "fallbackBullet", text |-> MatchFallbackBullet(l).text]
        ELSE IF MatchAtx(l).ok
           THEN [rule |-> "atx", text |-> MatchAtx(l).text]
        ELSE [rule |-> "fallback", text |-> l]

\* What a line classified as an item does: the implicit section if there is
\* none yet, and the text pushed if `push`.
ItemEffect(push, text) ==
    /\ title' = title
    /\ LET items == IF push THEN <<Trim(text)>> ELSE <<>>
       IN  IF currentSection = 0
              THEN /\ psections' = Append(psections, [name |-> ItemsName, items |-> items])
                   /\ currentSection' = Len(psections) + 1
              ELSE /\ psections' = [psections EXCEPT ![currentSection].items = @ \o items]
                   /\ currentSection' = currentSection

\* What a line classified as a heading or by the fallback does with its
\* text: the title, or a new section.
NameEffect(text) ==
    \/ /\ Trim(text) = title'
       /\ UNCHANGED <<psections, currentSection>>
    \/ /\ title' = title
       /\ psections' = Append(psections, [name |-> Trim(text), items |-> <<>>])
       /\ currentSection' = Len(psections) + 1

\* C17: every step over a line has the effect of the rule that classifies
\* the line in the order checked checkbox, unchecked checkbox, custom
\* checked, custom unchecked, plain bullet, heading, fallback: a checked rule
\* pushes nothing, an unchecked rule pushes its own captured text, a heading
\* gives its captured text and the fallback the whole line as title or as
\* section name.  So a checked-checkbox line is not taken as a plain bullet,
\* and the heading pattern, tested first, takes no line from an item rule.
C17_Precedence ==
    [][(parsePc = "lines" /\ lineIdx' = lineIdx + 1) =>
          LET r == RuleOf(lines[lineIdx])
          IN  CASE r.rule = "blank" -> UNCHANGED <<title, psections, currentSection>>
                [] r.rule \in {"mdChecked", "yourChecked"} -> ItemEffect(FALSE, r.text)
                [] r.rule \in {"mdUnchecked", "yourUnchecked", "fallbackBullet"} ->
                       ItemEffect(TRUE, r.text)
                [] r.rule \in {"atx", "fallback"} -> NameEffect(r.text)]_vars

\* A finished parse of a checked-checkbox line, a plain bullet and a heading.
C17_Witness ==
    /\ parsePc = "done"
    /\ \E i, j, k \in 1..Len(lines) :
          /\ RuleOf(lines[i]).rule = "mdChecked"
          /\ RuleOf(lines[j]).rule = "fallbackBullet"
          /\ RuleOf(lines[k]).rule = "atx"

(***************************************************************************)
(* Icon matcher: texts                                                     *)
(*                                                                         *)
(* rawText, the keys and targets of SYNONYMS and iconKey are strings; the  *)
(* helpers work on sequences of one-character strings.  No sample text is  *)
(* the word null, so the key "null" and the value null cannot be confused. *)
(***************************************************************************)
Chars(str) == [i \in 1..Len(str) |-> SubSeq(str, i, i)]

RECURSIVE Str(_)
Str(cs) == IF cs = <<>> THEN "" ELSE Head(cs) \o Str(Tail(cs))

CharSet(str) == {SubSeq(str, i, i) : i \in 1..Len(str)}

EndsWith(w, suffix) ==
    LET x == Chars(suffix)
    IN  Len(w) >= Len(x) /\ SubSeq(w, Len(w) - Len(x) + 1, Len(w)) = x

DropLast(w, n) == SubSeq(w, 1, Len(w) - n)

UpperLetters == "ABCDEFGHIJKLMNOPQRSTUVWXYZ"
LowerLetters == "abcdefghijklmnopqrstuvwxyz"
Digits == "0123456789"

\* \w of a JavaScript regular expression.
WordChars == CharSet(UpperLetters) \cup CharSet(LowerLetters) \cup CharSet(Digits) \cup {"_"}

IsWordChar(c) == c \in WordChars

\* Stand-ins, in the alphabet of the model, for two characters outside
\* ASCII: the letter e with acute accent (U+00E9) and the combining acute
\* accent (U+0301) that NFKD splits it into.
E_ACUTE == "@"
COMBINING_ACUTE == "^"

\* String.prototype.toLowerCase, one character.
toLowerCase(c) ==
    IF c \in CharSet(UpperLetters)
    THEN LET i == CHOOSE k \in 1..Len(UpperLetters) : SubSeq(UpperLetters, k, k) = c
         IN  SubSeq(LowerLetters, i, i)
    ELSE c

\* String.prototype.normalize('NFKD'), one character.
NFKD(c) == IF c = E_ACUTE THEN <<"e", COMBINING_ACUTE>> ELSE <<c>>

\* [\u0300-\u036f]
IsCombiningMark(c) == c = COMBINING_ACUTE

\* The apostrophes of the two possessive patterns that occur in the texts
\* used here.
Apostrophes == {"'"}

\* .replace(/\([^()]*\)/g, '') from position i on: an opening parenthesis
\* whose next parenthesis is a closing one is removed with all in between.
RECURSIVE RemoveParens(_, _)
RemoveParens(s, i) ==
    IF i > Len(s) THEN <<>>
    ELSE LET nxt == {j \in (i + 1)..Len(s) : s[j] \in {"(", ")"}}
             j == CHOOSE k \in nxt : \A m \in nxt : k <= m
         IN  IF s[i] = "(" /\ nxt # {} /\ s[j] = ")"
             THEN RemoveParens(s, j + 1)
             ELSE <<s[i]>> \o RemoveParens(s, i + 1)

\* .toLowerCase().normalize('NFKD').replace(/[\u0300-\u036f]/g, '')
LowerNoAccents(s) ==
    SelectSeq(Flatten([i \in 1..Len(s) |-> NFKD(toLowerCase(s[i]))]),
              LAMBDA c : ~IsCombiningMark(c))

\* .replace(/['...]s\b/g, '') from position i on.
RECURSIVE StripPossessive(_, _)
StripPossessive(s, i) ==
    IF i > Len(s) THEN <<>>
    ELSE IF /\ s[i] \in Apostrophes
            /\ i < Len(s)
            /\ s[i + 1] = "s"
            /\ (i + 2 > Len(s) \/ ~IsWordChar(s[i + 2]))
         THEN StripPossessive(s, i + 2)
         ELSE <<s[i]>> \o StripPossessive(s, i + 1)

\* .replace(/\b['...]\b/g, ''): an apostrophe between two word characters.
RECURSIVE StripInnerApostrophes(_, _)
StripInnerApostrophes(s, i) ==
    IF i > Len(s) THEN <<>>
    ELSE IF /\ s[i] \in Apostrophes
            /\ i > 1 /\ IsWordChar(s[i - 1])
            /\ i < Len(s) /\ IsWordChar(s[i + 1])
         THEN StripInnerApostrophes(s, i + 1)
         ELSE <<s[i]>> \o StripInnerApostrophes(s, i + 1)

\* .replace(/[_/\\]/g, ' ')
SeparatorsToSpace(s) ==
    [i \in 1..Len(s) |-> IF s[i] \in {"_", "/", "\\"} THEN " " ELSE s[i]]

\* .replace(/[^\w\s-]/g, ' ')
PunctuationToSpace(s) ==
    [i \in 1..Len(s) |->
        IF IsWordChar(s[i]) \/ IsWs(s[i]) \/ s[i] = "-" THEN s[i] ELSE " "]

\* .replace(/\s+/g, by) from position i on.
RECURSIVE ReplaceWsRuns(_, _, _)
ReplaceWsRuns(s, i, by) ==
    IF i > Len(s) THEN <<>>
    ELSE IF IsWs(s[i]) THEN <<by>> \o ReplaceWsRuns(s, SkipWs(s, i), by)
    ELSE <<s[i]>> \o ReplaceWsRuns(s, i + 1, by)

\* (s || ''), as a sequence of characters
OrEmpty(raw) == IF raw = NULL THEN <<>> ELSE Chars(raw)

\* normalize(s), from the first replace on
normalize(s) ==
    LET s1 == RemoveParens(s, 1)
        s2 == LowerNoAccents(s1)
        s3 == StripPossessive(s2, 1)
        s4 == StripInnerApostrophes(s3, 1)
        s5 == SeparatorsToSpace(s4)
        s6 == PunctuationToSpace(s5)
        s7 == ReplaceWsRuns(s6, 1, " ")
    IN  Trim(s7)

COMMON_MODS ==
    {"green", "red", "yellow", "orange", "ripe", "unripe", "fresh", "frozen", "organic",
     "large", "small", "medium", "big", "mini",
     "bag", "box", "bottle", "jar", "pack", "pkg", "tin", "can", "carton", "case",
     "check", "note", "sale", "bulk", "family", "value", "bundle"}

\* text.split(' ')
RECURSIVE SplitSpace(_)
SplitSpace(s) ==
    IF \A k \in 1..Len(s) : s[k] # " " THEN <<s>>
    ELSE LET p == CHOOSE k \in 1..Len(s) : s[k] = " " /\ \A j \in 1..(k - 1) : s[j] # " "
         IN  <<SubSeq(s, 1, p - 1)>> \o SplitSpace(SubSeq(s, p + 1, Len(s)))

\* text.split(' ').filter(Boolean)
Words(s) == SelectSeq(SplitSpace(s), LAMBDA w : w # <<>>)

\* words.join(' ')
RECURSIVE JoinSpace(_)
JoinSpace(ws) ==
    IF Len(ws) = 0 THEN <<>>
    ELSE IF Len(ws) = 1 THEN ws[1]
    ELSE ws[1] \o <<" ">> \o JoinSpace(Tail(ws))

stripModifiers(text) ==
    LET words == Words(text)
        kept == SelectSeq(words, LAMBDA w : Str(w) \notin COMMON_MODS)
    IN  IF JoinSpace(kept) # <<>> THEN JoinSpace(kept) ELSE text

singularizeWord(w) ==
    IF EndsWith(w, "ies") THEN DropLast(w, 3) \o <<"y">>
    ELSE IF EndsWith(w, "ches") \/ EndsWith(w, "shes") \/ EndsWith(w, "xes") \/ EndsWith(w, "zes")
         THEN DropLast(w, 2)
    ELSE IF EndsWith(w, "oes") THEN DropLast(w, 2) \o <<"o">>
    ELSE IF EndsWith(w, "s") /\ ~(EndsWith(w, "ss") \/ EndsWith(w, "us")) THEN DropLast(w, 1)
    ELSE w

toKey(s) == ReplaceWsRuns(s, 1, "_")

(***************************************************************************)
(* Icon matcher: the synonym table and pickIconKeySmart                    *)
(***************************************************************************)
\* SYNONYMS is a plain object: a name that is not its own property is
\* looked up on Object.prototype.
ObjectPrototypeKeys ==
    {"constructor", "hasOwnProperty", "isPrototypeOf", "propertyIsEnumerable",
     "toLocaleString", "toString", "valueOf", "__proto__",
     "__defineGetter__", "__defineSetter__", "__lookupGetter__", "__lookupSetter__"}

\* SYNONYMS[k]
Get(k) ==
    IF Str(k) \in DOMAIN SYNONYMS THEN [kind |-> "string", val |-> SYNONYMS[Str(k)]]
    ELSE IF Str(k) \in ObjectPrototypeKeys THEN [kind |-> "object"]
    ELSE [kind |-> "undefined"]

\* if (SYNONYMS[k])
Truthy(v) == v.kind = "object" \/ (v.kind = "string" /\ v.val # "")

Returns(key) == [threw |-> FALSE, key |-> key]
Throws == [threw |-> TRUE]

\* return toKey(SYNONYMS[k]): s.replace is not a function when the value is
\* not a string.
ReturnTarget(v) ==
    IF v.kind = "string" THEN Returns(Str(toKey(Chars(v.val)))) ELSE Throws

\* for (const w of singularWords)
RECURSIVE AnyToken(_, _)
AnyToken(singularWords, i) ==
    IF i > Len(singularWords) THEN Returns(NULL)
    ELSE LET w == singularWords[i]
         IN  IF Truthy(Get(w)) THEN ReturnTarget(Get(w))
             ELSE IF w # <<>> THEN Returns(Str(toKey(w)))
             ELSE AnyToken(singularWords, i + 1)

\* if (singularWords.length) { const last = ... }
LastToken(singularWords) ==
    IF Len(singularWords) > 0
    THEN LET last == singularWords[Len(singularWords)]
         IN  IF Truthy(Get(last)) THEN ReturnTarget(Get(last))
             ELSE IF last # <<>> THEN Returns(Str(toKey(last)))
             ELSE AnyToken(singularWords, 1)
    ELSE AnyToken(singularWords, 1)

\* for (let n = Math.min(3, singularWords.length); n >= 1; n--)
RECURSIVE TailNGrams(_, _)
TailNGrams(singularWords, n) ==
    IF n < 1 THEN LastToken(singularWords)
    ELSE LET len == Len(singularWords)
             tail == JoinSpace(SubSeq(singularWords, len - n + 1, len))
         IN  IF Truthy(Get(tail)) THEN ReturnTarget(Get(tail))
             ELSE IF tail # <<>> THEN Returns(Str(toKey(tail)))
             ELSE TailNGrams(singularWords, n - 1)

Cleaned(raw) ==
    normalize(stripModifiers(normalize(OrEmpty(raw))))

SingularWords(cleaned) ==
    LET words == Words(cleaned)
    IN  [i \in 1..Len(words) |-> singularizeWord(words[i])]

pickIconKeySmart(raw) ==
    LET cleaned == Cleaned(raw)
        singularWords == SingularWords(cleaned)
        fullSingular == JoinSpace(singularWords)
    IN  IF cleaned = <<>> THEN Returns(NULL)
        ELSE IF Truthy(Get(cleaned)) THEN ReturnTarget(Get(cleaned))
        ELSE IF Truthy(Get(fullSingular)) THEN ReturnTarget(Get(fullSingular))
        ELSE IF fullSingular # <<>> THEN Returns(Str(toKey(fullSingular)))
        ELSE TailNGrams(singularWords, Min(3, Len(singularWords)))

(***************************************************************************)
(* Icon matcher: inputs                                                    *)
(***************************************************************************)
SampleWords ==
    {"2", "bell", "peppers", "Granny", "Smith", "Apples", "s", "constructor"}

RECURSIVE JoinWords(_)
JoinWords(ws) ==
    IF Len(ws) = 1 THEN ws[1] ELSE ws[1] \o " " \o JoinWords(Tail(ws))

\* Texts outside the word combinations: empty, whitespace only, null,
\* modifiers, annotations, possessives, separators, accents, plurals.
SampleTexts ==
    {"", " ", " \t ", NULL, "red", "red bell peppers", "peppers (check date) (sale)",
     "kid's yogurt", "o'clock", "peanut_butter", "half/half", "pur@e!",
     "tomatoes", "berries", "boxes", "hummus", "glass", "s s", "constructors"}

RawTexts ==
    SampleTexts \cup
    {JoinWords(ws) : ws \in UNION {[1..n -> SampleWords] : n \in 1..MaxWords}}

\* What icon-map.json may hold under "synonyms".
SynonymTables ==
    { <<>>,
      ("bell pepper" :> "pepper"),
      ("apples" :> "red apple" @@ "2 bell pepper" :> "pepper"),
      ("smith" :> "" @@ "granny smith apple" :> "apple") }

(***************************************************************************)
(* Icon matcher: the state machine                                         *)
(***************************************************************************)
NotMatch == <<packVars, parseVars, appVars>>

\* let SYNONYMS = {}; the page has not loaded icon-map.json yet.
MatchInit ==
    /\ PackIdle /\ ParseIdle /\ AppIdle
    /\ SYNONYMS = <<>>
    /\ rawText \in RawTexts
    /\ iconKey = NULL
    /\ matchPc = "boot"

\* loadIconMap, the fetch and the JSON are fine: SYNONYMS = data?.synonyms || {}
LoadIconMapOk ==
    /\ UNCHANGED NotMatch
    /\ matchPc = "boot"
    /\ \E t \in SynonymTables : SYNONYMS' = t
    /\ matchPc' = "ready"
    /\ UNCHANGED <<rawText, iconKey>>

\* loadIconMap, the catch branch: SYNONYMS = {}
LoadIconMapFailed ==
    /\ UNCHANGED NotMatch
    /\ matchPc = "boot"
    /\ SYNONYMS' = <<>>
    /\ matchPc' = "ready"
    /\ UNCHANGED <<rawText, iconKey>>

\* const key = pickIconKeySmart(rawText), when it returns
PickReturns ==
    /\ UNCHANGED NotMatch
    /\ matchPc = "ready"
    /\ ~pickIconKeySmart(rawText).threw
    /\ iconKey' = pickIconKeySmart(rawText).key
    /\ matchPc' = "returned"
    /\ UNCHANGED <<SYNONYMS, rawText>>

\* const key = pickIconKeySmart(rawText), when toKey throws a TypeError
PickThrows ==
    /\ UNCHANGED NotMatch
    /\ matchPc = "ready"
    /\ pickIconKeySmart(rawText).threw
    /\ matchPc' = "threw"
    /\ UNCHANGED <<SYNONYMS, rawText, iconKey>>

MatchNext == LoadIconMapOk \/ LoadIconMapFailed \/ PickReturns \/ PickThrows

SpecMatch == MatchInit /\ [][MatchNext]_vars

(***************************************************************************)
(* Icon matcher: properties                                                *)
(***************************************************************************)
cleaned == Cleaned(rawText)
singularWords == SingularWords(cleaned)
fullSingular == JoinSpace(singularWords)

\* The table maps the phrase to a target (a non-empty one).
HasSynonym(phrase) == Str(phrase) \in DOMAIN SYNONYMS /\ SYNONYMS[Str(phrase)] # ""

SynonymKey(phrase) == Str(toKey(Chars(SYNONYMS[Str(phrase)])))

\* The last n singularized tokens, joined by a space.
TailPhrase(n) ==
    JoinSpace(SubSeq(singularWords, Len(singularWords) - n + 1, Len(singularWords)))

\* n tokens at the tail are a synonym phrase, there are tokens before them,
\* and neither the full phrase nor a longer tail is a synonym phrase.
TailSynonymAt(n) ==
    /\ n \in 1..(Len(singularWords) - 1)
    /\ n <= 3
    /\ HasSynonym(TailPhrase(n))
    /\ ~HasSynonym(cleaned) /\ ~HasSynonym(fullSingular)
    /\ \A m \in (n + 1)..Min(3, Len(singularWords)) : ~HasSynonym(TailPhrase(m))

\* C8: when the synonym table maps a tail phrase of the item to a canonical
\* key and the full phrase has extra leading tokens, the matcher returns
\* that canonical key; with {"bell pepper": "pepper"}, "2 bell peppers"
\* gives "pepper".
C8_TailSynonym ==
    matchPc = "returned" =>
        \A n \in 1..3 : TailSynonymAt(n) => iconKey = SynonymKey(TailPhrase(n))

\* C9: with an empty synonym table, an item of several words resolves to
\* its singularized last token; "Granny Smith Apples" gives "apple".
C9_LastToken ==
    (/\ matchPc = "returned"
     /\ DOMAIN SYNONYMS = {}
     /\ Len(singularWords) >= 2
     /\ singularWords[Len(singularWords)] # <<>>)
    => iconKey = Str(singularWords[Len(singularWords)])

\* What the characterisation of the result says the matcher returns.
CharacterisedKey ==
    IF cleaned = <<>> THEN NULL
    ELSE IF HasSynonym(cleaned) THEN SynonymKey(cleaned)
    ELSE IF HasSynonym(fullSingular) THEN SynonymKey(fullSingular)
    ELSE Str(toKey(fullSingular))

\* C10: for every input the matcher returns null exactly when the cleaned
\* text is empty; otherwise the synonym target of the cleaned text if one
\* exists, else that of the singularized phrase if one exists, else the
\* singularized phrase itself, as a key that holds no whitespace.
C10_Characterisation ==
    /\ matchPc # "threw"
    /\ matchPc = "returned" =>
        /\ (iconKey = NULL) <=> (cleaned = <<>>)
        /\ iconKey = CharacterisedKey
        /\ iconKey # NULL => \A k \in 1..Len(iconKey) : ~IsWs(SubSeq(iconKey, k, k))

(***************************************************************************)
(* The page: startup, debounced rendering, PDF export                      *)
(*                                                                         *)
(* One step is one task of the event loop: a handler, or the continuation  *)
(* of an async function after an awaited promise has settled.  Time is     *)
(* counted in ticks of 100 ms.  The text-size selector and the sample      *)
(* button are left out.  A render cycle that has sections waits for the    *)
(* layout (two animation frames) before it packs; the waits end in the     *)
(* order in which they began.                                              *)
(***************************************************************************)
MaxInputs == 2
MaxTime == 4

\* setTimeout(filterNow, 200), in ticks
DebounceTicks == 2

ItemsText == "- a"
CheckedText == "- [x] a"

\* What the user may type into #src.
Texts == {ItemsText, CheckedText}

\* What #src holds when the page loads.
InitialTexts == {"", ItemsText}

\* params.get('text') of the hash, null when there is none.
HashTexts == {NULL, CheckedText}

\* btn.textContent of the export button as the page loads.
ButtonLabel == "PDF"
BuildingLabel == "Building..."

\* The body of icon-map.json as res.json() gives it: not JSON at all, the
\* JSON null, an object without "synonyms", an object with them.
LexiconBodies ==
    { [kind |-> "malformed", hasSynonyms |-> FALSE, synonyms |-> <<>>],
      [kind |-> "null", hasSynonyms |-> FALSE, synonyms |-> <<>>],
      [kind |-> "object", hasSynonyms |-> FALSE, synonyms |-> <<>>],
      [kind |-> "object", hasSynonyms |-> TRUE, synonyms |-> ("bell pepper" :> "pepper")] }

\* data?.synonyms || {}
SynonymsOf(data) ==
    IF data.kind = "object" /\ data.hasSynonyms THEN data.synonyms ELSE <<>>

\* A try block that covers the fetch alone.
CatchesFetchOnly(failure) == failure = "rejected"

\* The try block of loadIconMap covers the fetch, the status check and
\* res.json(): each of the three failures ends in its catch.
loadIconMapCatches(failure) == failure \in {"rejected", "notOk", "malformed"}

\* How loadIconMap ends on a failure: in its catch, or by throwing.
LoadFails(failure) ==
    IF loadIconMapCatches(failure)
       THEN SYNONYMS' = <<>> /\ lexicon' = failure
       ELSE lexicon' = "threw" /\ UNCHANGED SYNONYMS

LexiconSettled == lexicon \in {"ok", "notOk", "rejected", "malformed", "threw"}

LexiconFailed == lexicon \in {"notOk", "rejected", "malformed"}

\* model.sections.length > 0 for parseMarkdownList(text): some line is an
\* unchecked item.
HasSections(text) ==
    LET ls == SplitLines(Chars(text))
    IN  \E i \in 1..Len(ls) : KindOf(ls[i]) = "unchecked"

\* What renderQuadrants puts into #out before it waits for the layout.
OutKindOf(text) == IF HasSections(text) THEN "grid" ELSE "note"

\* renderQuadrants up to its await: a model without sections gives the note
\* and returns; otherwise the cycle `id` waits for the layout.
Suspended(id, text) == IF HasSections(text) THEN <<id>> ELSE <<>>

\* The grid is whatever .grid4 #out holds when the cycle resumes.
GridInOut(r) == outKind = "grid"

\* The grid the cycle r created (its `grid` local) is still a child of #out:
\* no later cycle has emptied #out.
GridAttached(r) == outRun = r

\* An input event as the listener meets it: `superseded` tells whether the
\* timer of _tid was still pending when clearTimeout(_tid) ran.
InputEvent(text) ==
    [kind |-> "input", by |-> "user", text |-> text, at |-> now,
     superseded |-> \E t \in timers : t.id = tid]

\* filterNow(): the cycle reads #src when it starts.
Run(by, text) ==
    [kind |-> "run", by |-> by, text |-> text, at |-> now, superseded |-> FALSE]

\* A clearTimeout that clears nothing.
clearNothing(ts, id) == ts

\* clearTimeout(id)
clearTimeout(ts, id) == {t \in ts : t.id # id}

NumInputs == Cardinality({p \in 1..Len(log) : log[p].kind = "input"})

NotApp == <<packVars, parseVars, rawText, iconKey, matchPc>>

AppInit ==
    /\ PackIdle /\ ParseIdle
    /\ rawText = "" /\ iconKey = NULL /\ matchPc = "idle"
    /\ SYNONYMS = <<>>
    /\ bootPc = "unloaded"
    /\ lexicon = "idle"
    /\ hashText \in HashTexts
    /\ srcValue \in InitialTexts
    /\ now = 0
    /\ timers = {}
    /\ tid = NULL
    /\ log = <<>>
    /\ outKind = "none"
    /\ outStyled = FALSE /\ gridStyled = FALSE
    /\ pdfPc = "idle"
    /\ btn = [disabled |-> FALSE, label |-> ButtonLabel, prev |-> ButtonLabel]
    /\ notices = {}
    /\ inflight = <<>> /\ outRun = 0 /\ outEntries = {}

\* The DOMContentLoaded handler up to `await loadIconMap()`, and loadIconMap
\* up to `await fetch(...)`.
DOMContentLoaded ==
    /\ UNCHANGED NotApp
    /\ UNCHANGED <<inflight, outRun, outEntries>>
    /\ bootPc = "unloaded"
    /\ bootPc' = "awaiting"
    /\ lexicon' = "fetch"
    /\ UNCHANGED <<SYNONYMS, hashText, srcValue, now, timers, tid, log, outKind, outStyled,
                   gridStyled, pdfPc, btn, notices>>

\* The fetch settles: a response that is ok, one that is not, or a rejection.
FetchSettles ==
    /\ UNCHANGED NotApp
    /\ UNCHANGED <<inflight, outRun, outEntries>>
    /\ lexicon = "fetch"
    /\ \E outcome \in {"ok", "notOk", "rejected"} :
          IF outcome = "ok" THEN lexicon' = "json" /\ UNCHANGED SYNONYMS
          ELSE LoadFails(outcome)
    /\ UNCHANGED <<bootPc, hashText, srcValue, now, timers, tid, log, outKind, outStyled,
                   gridStyled, pdfPc, btn, notices>>

\* res.json() settles.
JsonSettles ==
    /\ UNCHANGED NotApp
    /\ UNCHANGED <<inflight, outRun, outEntries>>
    /\ lexicon = "json"
    /\ \E data \in LexiconBodies :
          IF data.kind = "malformed" THEN LoadFails("malformed")
          ELSE SYNONYMS' = SynonymsOf(data) /\ lexicon' = "ok"
    /\ UNCHANGED <<bootPc, hashText, srcValue, now, timers, tid, log, outKind, outStyled,
                   gridStyled, pdfPc, btn, notices>>

\* The rest of the DOMContentLoaded handler, once loadIconMap has ended: the
\* catch with its error box, applyTextSize (a first filterNow), the
\* listeners, the text of the hash, and the last filterNow.
Startup ==
    /\ UNCHANGED NotApp
    /\ bootPc = "awaiting" /\ LexiconSettled
    /\ LET text == IF hashText # NULL THEN hashText ELSE srcValue
       IN  /\ notices' = IF lexicon = "threw" THEN notices \cup {"lexicon"} ELSE notices
           /\ srcValue' = text
           /\ log' = log \o <<Run("size", srcValue),
                              Run(IF hashText # NULL THEN "hash" ELSE "startup", text)>>
           /\ outKind' = OutKindOf(text)
           /\ gridStyled' = FALSE
           /\ inflight' = inflight \o Suspended(Len(log) + 1, srcValue)
                                   \o Suspended(Len(log) + 2, text)
           /\ outRun' = Len(log) + 2
           /\ outEntries' = {}
    /\ bootPc' = "ready"
    /\ UNCHANGED <<SYNONYMS, lexicon, hashText, now, timers, tid, outStyled, pdfPc, btn>>

\* The input listener: clearTimeout(_tid); _tid = setTimeout(filterNow, 200)
Input ==
    /\ UNCHANGED NotApp
    /\ UNCHANGED <<inflight, outRun, outEntries>>
    /\ bootPc = "ready"
    /\ NumInputs < MaxInputs
    /\ now + DebounceTicks <= MaxTime
    /\ \E text \in Texts :
          /\ srcValue' = text
          /\ log' = Append(log, InputEvent(text))
    /\ timers' = clearTimeout(timers, tid) \cup
                     {[id |-> NumInputs + 1, due |-> now + DebounceTicks]}
    /\ tid' = NumInputs + 1
    /\ UNCHANGED <<SYNONYMS, bootPc, lexicon, hashText, now, outKind, outStyled, gridStyled,
                   pdfPc, btn, notices>>

\* 100 ms pass.
Tick ==
    /\ UNCHANGED NotApp
    /\ UNCHANGED <<inflight, outRun, outEntries>>
    /\ bootPc = "ready"
    /\ now < MaxTime
    /\ now' = now + 1
    /\ UNCHANGED <<SYNONYMS, bootPc, lexicon, hashText, srcValue, timers, tid, log, outKind,
                   outStyled, gridStyled, pdfPc, btn, notices>>

\* A timer that is due runs filterNow.
DebounceFires ==
    /\ UNCHANGED NotApp
    /\ \E t \in timers :
          /\ t.due <= now
          /\ timers' = timers \ {t}
    /\ log' = Append(log, Run("debounce", srcValue))
    /\ outKind' = OutKindOf(srcValue)
    /\ gridStyled' = FALSE
    /\ inflight' = inflight \o Suspended(Len(log) + 1, srcValue)
    /\ outRun' = Len(log) + 1
    /\ outEntries' = {}
    /\ UNCHANGED <<SYNONYMS, bootPc, lexicon, hashText, srcValue, now, tid, outStyled, pdfPc,
                   btn, notices>>

\* The layout wait of the oldest waiting cycle is over: flowIntoQuadrants
\* measures and packs (its measurer is put into #out and taken out again),
\* and renderQuadrants hangs the quadrants and entries into its grid.
LayoutSettles ==
    /\ UNCHANGED NotApp
    /\ inflight # <<>>
    /\ inflight' = Tail(inflight)
    /\ outEntries' = IF GridAttached(Head(inflight)) THEN outEntries \cup {Head(inflight)}
                     ELSE outEntries
    /\ UNCHANGED <<SYNONYMS, bootPc, lexicon, hashText, srcValue, now, timers, tid, log,
                   outKind, outStyled, gridStyled, pdfPc, btn, notices, outRun>>

\* The click handler of btn-pdf up to the first await of generatePDF.
ClickPdf ==
    /\ UNCHANGED NotApp
    /\ UNCHANGED <<inflight, outRun, outEntries>>
    /\ bootPc = "ready"
    /\ pdfPc = "idle" /\ ~btn.disabled
    /\ btn' = [disabled |-> TRUE, label |-> BuildingLabel, prev |-> btn.label]
    /\ pdfPc' = "preparing"
    /\ UNCHANGED <<SYNONYMS, bootPc, lexicon, hashText, srcValue, now, timers, tid, log,
                   outKind, outStyled, gridStyled, notices>>

\* catch and finally of the click handler: the error box, the button back.
ExportFailed ==
    /\ pdfPc' = "failed"
    /\ notices' = notices \cup {"pdf"}
    /\ btn' = [btn EXCEPT !.disabled = FALSE, !.label = btn.prev]

\* generatePDF after its waits: enterPdfMode sets the geometry on #out, then
\* on the .grid4 inside it (a TypeError when there is none), and html2canvas
\* is started.
PdfSetup ==
    /\ UNCHANGED NotApp
    /\ UNCHANGED <<inflight, outRun, outEntries>>
    /\ pdfPc = "preparing"
    /\ outStyled' = TRUE
    /\ IF outKind = "grid"
          THEN gridStyled' = TRUE /\ pdfPc' = "snapshot" /\ UNCHANGED <<btn, notices>>
          ELSE ExportFailed /\ UNCHANGED gridStyled
    /\ UNCHANGED <<SYNONYMS, bootPc, lexicon, hashText, srcValue, now, timers, tid, log,
                   outKind>>

\* html2canvas settles: rejected; or a canvas, then exit() and the jsPDF
\* part, which may throw.
SnapshotSettles ==
    /\ UNCHANGED NotApp
    /\ UNCHANGED <<inflight, outRun, outEntries>>
    /\ pdfPc = "snapshot"
    /\ \E outcome \in {"rejected", "pdfThrows", "ok"} :
          IF outcome = "rejected"
             THEN ExportFailed /\ UNCHANGED <<outStyled, gridStyled>>
             ELSE /\ outStyled' = FALSE /\ gridStyled' = FALSE
                  /\ IF outcome = "pdfThrows" THEN ExportFailed
                     ELSE /\ pdfPc' = "done"
                          /\ btn' = [btn EXCEPT !.disabled = FALSE, !.label = btn.prev]
                          /\ UNCHANGED notices
    /\ UNCHANGED <<SYNONYMS, bootPc, lexicon, hashText, srcValue, now, timers, tid, log,
                   outKind>>

\* setTimeout(() => errorBox.remove(), 5000)
NoticeExpires ==
    /\ UNCHANGED NotApp
    /\ UNCHANGED <<inflight, outRun, outEntries>>
    /\ \E n \in notices : notices' = notices \ {n}
    /\ UNCHANGED <<SYNONYMS, bootPc, lexicon, hashText, srcValue, now, timers, tid, log,
                   outKind, outStyled, gridStyled, pdfPc, btn>>

AppNext ==
    \/ DOMContentLoaded \/ FetchSettles \/ JsonSettles \/ Startup
    \/ Input \/ Tick \/ DebounceFires \/ LayoutSettles
    \/ ClickPdf \/ PdfSetup \/ SnapshotSettles \/ NoticeExpires

SpecApp == AppInit /\ [][AppNext]_vars

\* The event loop runs the DOMContentLoaded handler, and its continuation
\* once loadIconMap has ended; whether the network ever answers, and what
\* the user does, is open.
SpecAppFair == SpecApp /\ WF_vars(DOMContentLoaded) /\ WF_vars(Startup)

(***************************************************************************)
(* The page: properties                                                    *)
(***************************************************************************)
RunPositions == {p \in 1..Len(log) : log[p].kind = "run"}

InputPositions == {p \in 1..Len(log) : log[p].kind = "input"}

DebouncePositions == {p \in RunPositions : log[p].by = "debounce"}

\* C12: when the fetch of the icon map fails, answers with a status that is
\* not OK, or yields malformed JSON, loadIconMap ends without throwing, the
\* synonym table is the empty mapping, and startup goes on to register the
\* handlers and render the list.
C12_LoadFailureRecovered ==
    /\ [](lexicon # "threw")
    /\ [](LexiconFailed =>
            /\ DOMAIN SYNONYMS = {}
            /\ \/ bootPc = "awaiting" /\ ENABLED Startup
               \/ bootPc = "ready" /\ Cardinality(RunPositions) >= 2)
    /\ [][(LexiconFailed /\ bootPc = "awaiting" /\ bootPc' # bootPc) =>
              /\ bootPc' = "ready"
              /\ Len(log') = Len(log) + 2
              /\ lexicon' = lexicon /\ SYNONYMS' = SYNONYMS]_vars

\* Startup is over after malformed JSON: the listeners are registered and the
\* list was rendered with no synonyms.
C12_Witness ==
    /\ lexicon = "malformed"
    /\ bootPc = "ready"
    /\ RunPositions # {}
    /\ DOMAIN SYNONYMS = {}

\* C13: the first render of the list happens eventually, also when the fetch
\* of the lexicon never settles; a render before the lexicon has loaded
\* matches with an empty synonym table.
C13_RenderNotBlocked ==
    /\ <>[](lexicon = "fetch") => <>(RunPositions # {})
    /\ [](RunPositions # {} /\ lexicon \in {"fetch", "json"} => DOMAIN SYNONYMS = {})

\* Two inputs that directly follow one another.
Consecutive(p, r) ==
    /\ p \in InputPositions /\ r \in InputPositions /\ p < r
    /\ \A m \in (p + 1)..(r - 1) : m \notin InputPositions

\* The last input before position d; 0 if none.
LastInputBefore(d) ==
    IF \E p \in InputPositions : p < d
       THEN CHOOSE p \in InputPositions : p < d /\ \A m \in (p + 1)..(d - 1) : m \notin InputPositions
       ELSE 0

\* The cycles the timer started between two positions of the log.
DebounceBetween(p, r) == {d \in DebouncePositions : p < d /\ d < r}

\* C14: at most one debounce timer is pending at any time.  In a burst of
\* inputs, each arriving while the timer set by the one before is still
\* pending (as every input does that follows the one before by less than the
\* delay), no cycle is started between the inputs; the input that ends a
\* burst is followed by exactly one cycle, which starts no sooner than the
\* delay after it and uses the text that #src holds at that moment.  For the
\* last input that one cycle is owed while the timer is pending and has been
\* started once the timer is gone.
C14_Debounce ==
    /\ [](Cardinality(timers) <= 1)
    /\ [](\A p, r \in InputPositions : Consecutive(p, r) =>
             /\ log[r].at - log[p].at < DebounceTicks => log[r].superseded
             /\ Cardinality(DebounceBetween(p, r)) = IF log[r].superseded THEN 0 ELSE 1)
    /\ [](\A d \in DebouncePositions :
             LET p == LastInputBefore(d)
             IN  /\ p # 0
                 /\ log[d].at >= log[p].at + DebounceTicks
                 /\ log[d].text = log[p].text)
    /\ [](InputPositions # {} =>
            LET last == CHOOSE p \in InputPositions : \A r \in InputPositions : r <= p
            IN  Cardinality(DebounceBetween(last, Len(log) + 1)) =
                    IF timers = {} THEN 1 ELSE 0)
    /\ [][\A t \in timers : (t \notin timers' /\ tid' = tid) =>
              /\ t.due <= now
              /\ log' = Append(log, Run("debounce", srcValue))]_vars

\* C14 as stated, with the burst bounded by the delay alone: between two
\* inputs that follow one another, no cycle is started when the second comes
\* less than the delay after the first, and exactly one when it comes later.
C14_BurstByDelay ==
    /\ Cardinality(timers) <= 1
    /\ \A p, r \in InputPositions : Consecutive(p, r) =>
           Cardinality(DebounceBetween(p, r)) =
               IF log[r].at - log[p].at < DebounceTicks THEN 0 ELSE 1

\* Two inputs less than the delay apart, then one cycle with the second text.
C14_Witness ==
    /\ Len(log) >= 3
    /\ log[Len(log)].kind = "run" /\ log[Len(log)].by = "debounce"
    /\ log[Len(log) - 1].kind = "input" /\ log[Len(log) - 2].kind = "input"
    /\ log[Len(log) - 1].at - log[Len(log) - 2].at < DebounceTicks
    /\ log[Len(log) - 1].text # log[Len(log) - 2].text
    /\ log[Len(log)].text = log[Len(log) - 1].text

\* C15: when a step of the export fails, a failure notice is shown, the
\* button is enabled again under its previous label, and #out is as before
\* the export: same content, the print geometry set for the snapshot removed
\* from #out and from the grid.
C15_ExportFailureReverts ==
    [][(pdfPc # "failed" /\ pdfPc' = "failed") =>
          /\ "pdf" \in notices'
          /\ ~btn'.disabled /\ btn'.label = ButtonLabel
          /\ outKind' = outKind
          /\ ~outStyled' /\ ~gridStyled']_vars

\* C16: whenever loading the icon lexicon fails, a notice is displayed
\* during startup.
C16_LexiconNotice ==
    [][(bootPc = "awaiting" /\ bootPc' = "ready" /\ LexiconFailed) =>
          "lexicon" \in notices']_vars

\* The last cycle started.
LastRun == CHOOSE p \in RunPositions : \A r \in RunPositions : r <= p

\* C23: at most one cycle waits for the layout at any time.
C23_SingleRunInFlight == Len(inflight) <= 1

\* C25: the entries in #out are those of the cycle that filled #out last;
\* and once no cycle waits for the layout, #out holds the title and the grid
\* or note of the cycle started last, the grid with that cycle's entries.
C25_LastRunWins ==
    /\ outEntries \subseteq {outRun}
    /\ (inflight = <<>> /\ RunPositions # {}) =>
           /\ outRun = LastRun
           /\ outKind = OutKindOf(log[LastRun].text)
           /\ outEntries = IF outKind = "grid" THEN {LastRun} ELSE {}

\* The two cycles of startup both had sections, so the second began while
\* the first waited; later cycles may have joined them; all have finished.
C25_Witness ==
    /\ inflight = <<>>
    /\ Len(log) >= 3
    /\ HasSections(log[1].text) /\ HasSections(log[2].text)
    /\ LastRun > 2
    /\ outEntries = {LastRun}

====
